---- MODULE Spec2Model ----
(***************************************************************************)
(* The thought ledger of mcp-sequentialthinking-tools: the class           *)
(* ToolAwareSequentialThinkingServer (thought_history, branches,           *)
(* maxHistorySize) and its request pipeline processThought, in the two     *)
(* builds the sources hold with a history limit:                           *)
(*   "sdk"  - src/src/index.ts lines 713-1080: the hand-written            *)
(*            validateThoughtData, called from inside processThought;      *)
(*   "tmcp" - src/unnamed/part_001 with the valibot schema of              *)
(*            src/unnamed/part_000: the schema is applied before the       *)
(*            handler runs and processThought casts its input.             *)
(* JavaScript values are dynamically typed, so every field of an input and *)
(* of a stored record is a tagged value <<tag, payload>>.                  *)
(***************************************************************************)
EXTENDS Integers, Sequences, FiniteSets, TLC

VARIABLES
    build,            \* which build runs: "sdk" or "tmcp"
    maxHistorySize,   \* this.maxHistorySize
    thought_history,  \* this.thought_history
    branches,         \* this.branches: own keys |-> sequence of records
    available_tools,  \* this.available_tools: the descriptors, in insertion order
    tool_name,        \* request.params.name of the latest tools/call
    request,          \* the arguments of the latest tools/call
    response,         \* what the latest operation returned
    pushed,           \* history variable: every record pushed onto
                      \* thought_history since startup or the last clear
    partial,          \* history variable: some call since startup or the
                      \* last clear threw after it had pushed its record
    calls             \* the tool-executing revision only: its requests in
                      \* the order received, each with how far it has got

vars == <<build, maxHistorySize, thought_history, branches, available_tools,
          tool_name, request, response, pushed, partial, calls>>

(***************************************************************************)
(* JavaScript values.                                                      *)
(***************************************************************************)
Undef == <<"undefined">>
Num(n) == <<"number", n>>
Str(s) == <<"string", s>>
Bool(b) == <<"boolean", b>>
Arr(s) == <<"array", s>>
Obj(o) == <<"object", o>>
NaN == <<"NaN">>

Tag(v) == v[1]

\* the arguments of a call are an object with the fields of ThoughtData (an
\* absent field reads as undefined), or null
NullArguments == [null |-> TRUE]

IsObject(input) == "thought" \in DOMAIN input

\* typeof v: an array is an object, NaN is a number
TypeOf(v) ==
    IF Tag(v) = "array" THEN "object"
    ELSE IF Tag(v) = "NaN" THEN "number"
    ELSE Tag(v)

\* Array.isArray(v)
IsArray(v) == Tag(v) = "array"

\* ToBoolean(v), as `!v`, `if (v)` and `v || d` use it
Truthy(v) ==
    CASE Tag(v) = "undefined" -> FALSE
      [] Tag(v) = "NaN" -> FALSE
      [] Tag(v) = "number" -> v[2] # 0
      [] Tag(v) = "string" -> v[2] # ""
      [] Tag(v) = "boolean" -> v[2]
      [] OTHER -> TRUE

Max(a, b) == IF a > b THEN a ELSE b

Min(a, b) == IF a < b THEN a ELSE b

\* Array.prototype.slice(start) with one argument
Slice(s, start) ==
    LET from == IF start < 0 THEN Max(Len(s) + start, 0) ELSE Min(start, Len(s))
    IN  SubSeq(s, from + 1, Len(s))

(***************************************************************************)
(* Step recommendations.  A well-formed one has a description, an array of *)
(* tool recommendations and an expected outcome.                           *)
(***************************************************************************)
Step(name, tools) ==
    Obj([step_description |-> Str(name), recommended_tools |-> tools,
         expected_outcome |-> Str("outcome"), next_step_conditions |-> Undef])

S1 == Step("S1", Arr(<<>>))

S2 == Step("S2", Arr(<<>>))

\* an object that is no StepRecommendation: recommended_tools is missing
BadStep == Step("S3", Undef)

\* StepRecommendationSchema of the valibot schema
StepRecommendationSchema(v) ==
    /\ Tag(v) = "object"
    /\ Tag(v[2].step_description) = "string"
    /\ IsArray(v[2].recommended_tools)
    /\ Tag(v[2].expected_outcome) = "string"
    /\ (Tag(v[2].next_step_conditions) = "undefined" \/ IsArray(v[2].next_step_conditions))

\* whether formatRecommendation(step) throws a TypeError:
\* step.recommended_tools.map(...) and step.next_step_conditions.join(...)
FormatRecommendationThrows(step) ==
    IF Tag(step) # "object" THEN TRUE
    ELSE \/ ~IsArray(step[2].recommended_tools)
         \/ (Truthy(step[2].next_step_conditions) /\ ~IsArray(step[2].next_step_conditions))

\* whether formatThought(thoughtData) throws: only through formatRecommendation
FormatThoughtThrows(t) ==
    Truthy(t.current_step) /\ FormatRecommendationThrows(t.current_step)


(***************************************************************************)
(* Configuration: MAX_HISTORY_SIZE is read once at startup.  The text of   *)
(* the environment variable is a sequence of characters.                   *)
(***************************************************************************)
Digits == <<"0", "1", "2", "3", "4", "5", "6", "7", "8", "9">>

IsDigit(c) == \E d \in 1..10 : Digits[d] = c

DigitValue(c) == (CHOOSE d \in 1..10 : Digits[d] = c) - 1

\* the length of the longest prefix of chars made of digits
RECURSIVE DigitPrefix(_)
DigitPrefix(chars) ==
    IF chars = <<>> \/ ~IsDigit(Head(chars)) THEN 0
    ELSE 1 + DigitPrefix(Tail(chars))

RECURSIVE DecimalValue(_, _)
DecimalValue(chars, n) ==
    IF n = 0 THEN 0
    ELSE 10 * DecimalValue(chars, n - 1) + DigitValue(chars[n])

\* parseInt(text): an optional sign, then the leading digits; NaN without any
ParseInt(chars) ==
    LET signed == chars # <<>> /\ Head(chars) \in {"-", "+"}
        body == IF signed THEN Tail(chars) ELSE chars
        n == DigitPrefix(body)
        magnitude == DecimalValue(body, n)
    IN  IF n = 0 THEN NaN
        ELSE IF signed /\ Head(chars) = "-" THEN Num(0 - magnitude)
        ELSE Num(magnitude)

DefaultMaxHistorySize == 1000

\* parseInt(process.env.MAX_HISTORY_SIZE || '1000')
ConfiguredMaxHistorySize(env) ==
    IF Tag(env) = "undefined" \/ env[2] = <<>>
    THEN ParseInt(<<"1", "0", "0", "0">>)
    ELSE ParseInt(env[2])

\* the constructor: this.maxHistorySize = options.maxHistorySize || 1000
ConstructMaxHistorySize(option) ==
    IF Truthy(option) THEN option[2] ELSE DefaultMaxHistorySize

\* the values of MAX_HISTORY_SIZE a deployment may set: unset, "", "a", "0",
\* "-1", "2", "2x"
EnvValues ==
    {Undef, Str(<<>>), Str(<<"a">>), Str(<<"0">>), Str(<<"-", "1">>),
     Str(<<"2">>), Str(<<"2", "x">>)}

(***************************************************************************)
(* The hand-written validator of the sdk build.                            *)
(***************************************************************************)
\* a variant without the check of next_thought_needed
ValidationErrorNoBooleanCheck(data) ==
    IF ~IsObject(data)
    THEN "Cannot read properties of null (reading 'available_mcp_tools')"
    ELSE IF ~Truthy(data.available_mcp_tools) \/ ~IsArray(data.available_mcp_tools)
    THEN "Invalid available_mcp_tools: must be an array"
    ELSE IF ~Truthy(data.thought) \/ TypeOf(data.thought) # "string"
    THEN "Invalid thought: must be a string"
    ELSE IF ~Truthy(data.thought_number) \/ TypeOf(data.thought_number) # "number"
    THEN "Invalid thought_number: must be a number"
    ELSE IF ~Truthy(data.total_thoughts) \/ TypeOf(data.total_thoughts) # "number"
    THEN "Invalid total_thoughts: must be a number"
    ELSE IF Truthy(data.previous_steps) /\ ~IsArray(data.previous_steps)
    THEN "previous_steps must be an array"
    ELSE IF Truthy(data.remaining_steps) /\ ~IsArray(data.remaining_steps)
    THEN "remaining_steps must be an array"
    ELSE ""

\* the message of the error validateThoughtData throws, "" when it returns
ValidationError(data) ==
    IF ~IsObject(data)
    THEN "Cannot read properties of null (reading 'available_mcp_tools')"
    ELSE IF ~Truthy(data.available_mcp_tools) \/ ~IsArray(data.available_mcp_tools)
    THEN "Invalid available_mcp_tools: must be an array"
    ELSE IF ~Truthy(data.thought) \/ TypeOf(data.thought) # "string"
    THEN "Invalid thought: must be a string"
    ELSE IF ~Truthy(data.thought_number) \/ TypeOf(data.thought_number) # "number"
    THEN "Invalid thought_number: must be a number"
    ELSE IF ~Truthy(data.total_thoughts) \/ TypeOf(data.total_thoughts) # "number"
    THEN "Invalid total_thoughts: must be a number"
    ELSE IF TypeOf(data.next_thought_needed) # "boolean"
    THEN "Invalid next_thought_needed: must be a boolean"
    ELSE IF Truthy(data.previous_steps) /\ ~IsArray(data.previous_steps)
    THEN "previous_steps must be an array"
    ELSE IF Truthy(data.remaining_steps) /\ ~IsArray(data.remaining_steps)
    THEN "remaining_steps must be an array"
    ELSE ""

\* the record validateThoughtData returns when it does not throw
ValidateThoughtData(data) ==
    [available_mcp_tools |-> data.available_mcp_tools,
     thought |-> data.thought,
     thought_number |-> data.thought_number,
     total_thoughts |-> data.total_thoughts,
     next_thought_needed |-> data.next_thought_needed,
     is_revision |-> data.is_revision,
     revises_thought |-> data.revises_thought,
     branch_from_thought |-> data.branch_from_thought,
     branch_id |-> data.branch_id,
     needs_more_thoughts |-> data.needs_more_thoughts,
     current_step |-> IF Truthy(data.current_step) THEN data.current_step ELSE Undef,
     previous_steps |-> IF Truthy(data.previous_steps) THEN data.previous_steps ELSE Undef,
     remaining_steps |-> IF Truthy(data.remaining_steps) THEN data.remaining_steps ELSE Undef]

(***************************************************************************)
(* The valibot schema of the tmcp build.                                   *)
(***************************************************************************)
Optional(v, ok) == Tag(v) = "undefined" \/ ok

ArrayOfStrings(v) ==
    IsArray(v) /\ \A i \in 1..Len(v[2]) : Tag(v[2][i]) = "string"

ArrayOfSteps(v) ==
    IsArray(v) /\ \A i \in 1..Len(v[2]) : StepRecommendationSchema(v[2][i])

NumberAtLeastOne(v) == Tag(v) = "number" /\ v[2] >= 1

\* whether SequentialThinkingSchema accepts the input
SequentialThinkingSchema(input) ==
    /\ IsObject(input)
    /\ ArrayOfStrings(input.available_mcp_tools)
    /\ Tag(input.thought) = "string"
    /\ Tag(input.next_thought_needed) = "boolean"
    /\ NumberAtLeastOne(input.thought_number)
    /\ NumberAtLeastOne(input.total_thoughts)
    /\ Optional(input.is_revision, Tag(input.is_revision) = "boolean")
    /\ Optional(input.revises_thought, NumberAtLeastOne(input.revises_thought))
    /\ Optional(input.branch_from_thought, NumberAtLeastOne(input.branch_from_thought))
    /\ Optional(input.branch_id, Tag(input.branch_id) = "string")
    /\ Optional(input.needs_more_thoughts, Tag(input.needs_more_thoughts) = "boolean")
    /\ Optional(input.current_step, StepRecommendationSchema(input.current_step))
    /\ Optional(input.previous_steps, ArrayOfSteps(input.previous_steps))
    /\ Optional(input.remaining_steps, ArrayOfStrings(input.remaining_steps))


(***************************************************************************)
(* The pipeline of processThought, step by step.                           *)
(***************************************************************************)
\* a variant that never raises the total
NormalizeTotalSkipped(t) == t

\* a variant that sets the total to the number of every thought
NormalizeTotalAlways(t) == [t EXCEPT !.total_thoughts = t.thought_number]

\* if (thought_number > total_thoughts) total_thoughts = thought_number
NormalizeTotal(t) ==
    IF t.thought_number[2] > t.total_thoughts[2]
    THEN [t EXCEPT !.total_thoughts = t.thought_number]
    ELSE t

\* a variant that starts a fresh list whenever a step arrives
AggregateStepReplaces(t) ==
    IF Truthy(t.current_step)
    THEN [t EXCEPT !.previous_steps = Arr(<<t.current_step>>)]
    ELSE t

\* a variant that puts the new step first (unshift for push)
AggregateStepPrepends(t) ==
    IF Truthy(t.current_step)
    THEN LET before == IF Truthy(t.previous_steps) THEN t.previous_steps[2] ELSE <<>>
         IN  [t EXCEPT !.previous_steps = Arr(<<t.current_step>> \o before)]
    ELSE t

\* if (current_step) { previous_steps ||= []; previous_steps.push(current_step) }
AggregateStep(t) ==
    IF Truthy(t.current_step)
    THEN LET before == IF Truthy(t.previous_steps) THEN t.previous_steps[2] ELSE <<>>
         IN  [t EXCEPT !.previous_steps = Arr(Append(before, t.current_step))]
    ELSE t

\* a variant that keeps the oldest entries (slice(0, max) for slice(-max))
TrimHistoryKeepsOldest(history, max) ==
    IF Len(history) > max THEN SubSeq(history, 1, max) ELSE history

\* a variant that hands the kept entries back newest first
TrimHistoryReorders(history, max) ==
    IF Len(history) > max
    THEN LET kept == Slice(history, 0 - max)
         IN  [i \in 1..Len(kept) |-> kept[Len(kept) + 1 - i]]
    ELSE history

\* if (history.length > max) history = history.slice(-max)
TrimHistory(history, max) ==
    IF Len(history) > max THEN Slice(history, 0 - max) ELSE history

\* the keys every plain object inherits from Object.prototype; `constructor`
\* stands for them all (toString, valueOf, __proto__, ...)
InheritedKeys == {"constructor"}

\* if (branch_from_thought && branch_id)
IndexesBranch(t) == Truthy(t.branch_from_thought) /\ Truthy(t.branch_id)

\* a variant that refuses a branch the index already holds
BranchPushThrowsOnKnownBranch(index, t) ==
    IndexesBranch(t) /\ t.branch_id[2] \in DOMAIN index

\* whether this.branches[branch_id].push(...) throws: the lookup finds an
\* inherited property, which is truthy and has no push
BranchPushThrows(index, t) ==
    /\ IndexesBranch(t)
    /\ t.branch_id[2] \notin DOMAIN index
    /\ t.branch_id[2] \in InheritedKeys

\* a variant that keeps no branch but the one it indexes the record under
IndexBranchDropsOthers(index, t) ==
    IF ~IndexesBranch(t) THEN index
    ELSE IF t.branch_id[2] \in DOMAIN index
    THEN (t.branch_id[2] :> Append(index[t.branch_id[2]], t))
    ELSE (t.branch_id[2] :> <<t>>)

\* if (!branches[id]) branches[id] = []; branches[id].push(record)
IndexBranch(index, t) ==
    IF ~IndexesBranch(t) THEN index
    ELSE IF t.branch_id[2] \in DOMAIN index
    THEN [index EXCEPT ![t.branch_id[2]] = Append(@, t)]
    ELSE (t.branch_id[2] :> <<t>>) @@ index

\* a variant that reports the length history had before the push
SuccessResponseStaleLength(t, index, history) ==
    [status |-> "ok",
     thought_number |-> t.thought_number,
     total_thoughts |-> t.total_thoughts,
     next_thought_needed |-> t.next_thought_needed,
     branches |-> DOMAIN index,
     thought_history_length |-> Len(history) - 1,
     available_mcp_tools |-> t.available_mcp_tools,
     current_step |-> t.current_step,
     previous_steps |-> t.previous_steps,
     remaining_steps |-> t.remaining_steps]

\* the object processThought serialises on success
SuccessResponse(t, index, history) ==
    [status |-> "ok",
     thought_number |-> t.thought_number,
     total_thoughts |-> t.total_thoughts,
     next_thought_needed |-> t.next_thought_needed,
     branches |-> DOMAIN index,
     thought_history_length |-> Len(history),
     available_mcp_tools |-> t.available_mcp_tools,
     current_step |-> t.current_step,
     previous_steps |-> t.previous_steps,
     remaining_steps |-> t.remaining_steps]

\* a variant whose catch block throws the error on
FailureResponseRethrown(message) ==
    [status |-> "thrown", error |-> message]

\* what the catch block returns
FailureResponse(message) ==
    [status |-> "failed", error |-> message, isError |-> TRUE]

\* the schema refused the arguments: the handler never ran
RejectedResponse == [status |-> "rejected", isError |-> TRUE]

\* nothing returned: startup, and addTool, which returns void
NoResponse == [status |-> "none"]

\* clearHistory returned (void)
ClearedResponse == [status |-> "cleared"]

(***************************************************************************)
(* The tool catalog and the dispatch of tools/call and tools/list.         *)
(***************************************************************************)
\* SEQUENTIAL_THINKING_TOOL.name, the name the call handler answers to
ToolName == "sequentialthinking_tools"

\* a Tool descriptor: its name and what else it holds
Tool(name, description) == [name |-> name, description |-> description]

SEQUENTIAL_THINKING_TOOL == Tool(ToolName, "sequential thinking")

\* this.available_tools.has(name)
HasTool(catalog, name) == \E i \in 1..Len(catalog) : catalog[i].name = name

\* a variant that sets the entry whether or not the name is present: Map.set
\* replaces the value and keeps the key's place
SetAlways(catalog, tool) ==
    IF HasTool(catalog, tool.name)
    THEN [i \in 1..Len(catalog) |->
            IF catalog[i].name = tool.name THEN tool ELSE catalog[i]]
    ELSE Append(catalog, tool)

\* if (has(tool.name)) return; set(tool.name, tool)
SetUnlessPresent(catalog, tool) ==
    IF HasTool(catalog, tool.name) THEN catalog ELSE Append(catalog, tool)

\* tools.forEach(...) of the constructor
RECURSIVE AddEach(_, _)
AddEach(catalog, tools) ==
    IF tools = <<>> THEN catalog
    ELSE AddEach(SetUnlessPresent(catalog, Head(tools)), Tail(tools))

\* a variant that does not put the server's own tool first
ConstructCatalogWithoutSelf(options) == AddEach(<<>>, options)

\* the constructor: [SEQUENTIAL_THINKING_TOOL, ...(options.available_tools || [])]
ConstructCatalog(options) == AddEach(<<>>, <<SEQUENTIAL_THINKING_TOOL>> \o options)

\* new ToolAwareSequentialThinkingServer({available_tools: [], ...})
StartupTools == <<>>

\* the catalog the constructor leaves
StartupCatalog == ConstructCatalog(StartupTools)

\* getAvailableTools(): Array.from(this.available_tools.values())
GetAvailableTools(catalog) == catalog

\* the tools registered with server.tool(...) in the tmcp build
RegisteredTools == <<SEQUENTIAL_THINKING_TOOL>>

\* the answer to tools/list: getAvailableTools() in the sdk build, the
\* registered tools in the tmcp build
ListedTools(b, catalog) ==
    IF b = "sdk" THEN GetAvailableTools(catalog) ELSE RegisteredTools

ToolsResponse(tools) == [status |-> "tools", tools |-> tools]

\* a variant that hands every call to processThought
DispatchesAnyName(name) == TRUE

\* if (request.params.name === 'sequentialthinking_tools')
Dispatches(name) == name = ToolName

\* the handler's answer to any other name
UnknownToolResponse(name) ==
    [status |-> "unknown_tool", text |-> <<"Unknown tool: ", name>>,
     isError |-> TRUE]

\* the names a tools/call may carry: the tool's, and the one an earlier
\* revision answered to
ToolNames == {ToolName, "sequentialthinking"}

NoName == ""

\* the tools addTool may be given: one under the server's own name, and two
\* descriptors under one new name
AddableTools ==
    {Tool(ToolName, "impostor"), Tool("mcp-omnisearch", "search"),
     Tool("mcp-omnisearch", "another search")}


(***************************************************************************)
(* The requests the model submits.                                         *)
(***************************************************************************)
\* how many records one run pushes and tools it adds; the run then takes no
\* more requests until history is cleared
MaxRequests == 3

Thought(number, total, needed, from, id, step, previous) ==
    [available_mcp_tools |-> Arr(<<>>),
     thought |-> Str("t"),
     thought_number |-> Num(number),
     total_thoughts |-> Num(total),
     next_thought_needed |-> Bool(needed),
     is_revision |-> Undef,
     revises_thought |-> Undef,
     branch_from_thought |-> from,
     branch_id |-> id,
     needs_more_thoughts |-> Undef,
     current_step |-> step,
     previous_steps |-> previous,
     remaining_steps |-> Undef]

\* thoughts of the main line: a number above the total (the revision of a
\* thought nobody submitted), and numbers that are no number >= 1 (0,
\* negative, text)
NumberingInputs ==
    {[Thought(3, 1, FALSE, Undef, Undef, Undef, Undef)
        EXCEPT !.is_revision = Bool(TRUE), !.revises_thought = Num(2)],
     Thought(0, 3, TRUE, Undef, Undef, Undef, Undef),
     Thought(0 - 1, 0 - 2, TRUE, Undef, Undef, Undef, Undef),
     [Thought(1, 3, TRUE, Undef, Undef, Undef, Undef)
        EXCEPT !.thought_number = Str("1")]}

\* thoughts carrying branch fields
BranchInputs ==
    {Thought(3, 2, TRUE, Num(2), Str("A"), Undef, Undef),
     Thought(2, 3, TRUE, Num(1), Str("B"), S2, Undef),
     Thought(2, 3, TRUE, Num(1), Str(""), Undef, Undef),
     Thought(2, 3, TRUE, Num(1), Str("constructor"), Undef, Undef)}

\* thoughts carrying step recommendations, among them previous_steps and
\* remaining_steps that are no arrays
StepInputs ==
    {Thought(1, 3, TRUE, Undef, Undef, S1, Undef),
     Thought(2, 3, TRUE, Undef, Undef, S2, Arr(<<S1>>)),
     [Thought(2, 2, FALSE, Undef, Undef, Undef, Arr(<<S1>>))
        EXCEPT !.remaining_steps = Arr(<<Str("r")>>)],
     Thought(2, 3, TRUE, Undef, Undef, BadStep, Undef),
     Thought(2, 3, TRUE, Undef, Undef, Undef, Num(0)),
     [Thought(2, 3, TRUE, Undef, Undef, Undef, Undef)
        EXCEPT !.remaining_steps = Str("x")]}

\* thoughts whose text is empty, or no text
TextInputs ==
    {[Thought(2, 3, TRUE, Undef, Undef, Undef, Undef) EXCEPT !.thought = Str("")],
     [Thought(2, 3, TRUE, Undef, Undef, Undef, Undef) EXCEPT !.thought = Num(5)]}

RequiredFields ==
    {"thought", "thought_number", "total_thoughts", "next_thought_needed"}

Without(input, field) == [input EXCEPT ![field] = Undef]

\* inputs that lack a field, the four required ones and available_mcp_tools,
\* or two fields at once
IncompleteInputs ==
    {Without(Thought(1, 3, TRUE, Undef, Undef, Undef, Undef), f) :
        f \in RequiredFields \cup {"available_mcp_tools"}}
    \cup {Without(Without(Thought(2, 3, TRUE, Num(1), Str("A"), BadStep, Arr(<<S1>>)),
                           "thought"), "next_thought_needed"),
          Without(Without(Thought(1, 3, TRUE, Undef, Undef, Undef, Undef),
                           "available_mcp_tools"), "thought")}

Inputs ==
    NumberingInputs \cup BranchInputs \cup StepInputs \cup TextInputs
    \cup IncompleteInputs \cup {NullArguments}

\* the arguments sent with a name the handler does not know; it never reads
\* them
UnreadArguments == {Thought(1, 3, TRUE, Undef, Undef, Undef, Undef)}

\* the arguments a call by this name is sent with
ArgumentsFor(name) == IF name = ToolName THEN Inputs ELSE UnreadArguments

\* no arguments were read
NoRequest == [none |-> TRUE]

(***************************************************************************)
(* The state machine.                                                      *)
(***************************************************************************)
Init ==
    /\ build \in {"sdk", "tmcp"}
    /\ maxHistorySize \in
         {ConstructMaxHistorySize(ConfiguredMaxHistorySize(env)) : env \in EnvValues}
    /\ thought_history = <<>>
    /\ branches = <<>>
    /\ available_tools = StartupCatalog
    /\ tool_name = NoName
    /\ request = NoRequest
    /\ response = NoResponse
    /\ pushed = <<>>
    /\ partial = FALSE
    /\ calls = <<>>

\* the records pushed and the tools added since startup or the last clear
Spent == Len(pushed) + Len(available_tools) - Len(StartupCatalog)

\* processThought(input), from its arrival to the value returned: the schema
\* (tmcp) or validateThoughtData (sdk), then the body inside its try/catch
ProcessThought(input) ==
    /\ request' = input
    /\ UNCHANGED <<build, maxHistorySize, available_tools>>
    /\ IF build = "tmcp" /\ ~SequentialThinkingSchema(input)
       THEN /\ response' = RejectedResponse
            /\ UNCHANGED <<thought_history, branches, pushed, partial>>
       ELSE IF build = "sdk" /\ ValidationError(input) # ""
       THEN /\ response' = FailureResponse(ValidationError(input))
            /\ UNCHANGED <<thought_history, branches, pushed, partial>>
       ELSE LET validatedInput ==
                    IF build = "sdk" THEN ValidateThoughtData(input) ELSE input
                record == AggregateStep(NormalizeTotal(validatedInput))
            IN  /\ thought_history' =
                      TrimHistory(Append(thought_history, record), maxHistorySize)
                /\ pushed' = Append(pushed, record)
                /\ IF BranchPushThrows(branches, record)
                   THEN /\ branches' = branches
                        /\ response' = FailureResponse("this.branches[...].push is not a function")
                        /\ partial' = TRUE
                   ELSE /\ branches' = IndexBranch(branches, record)
                        /\ IF FormatThoughtThrows(record)
                           THEN /\ response' = FailureResponse("Cannot read properties of undefined (reading 'map')")
                                /\ partial' = TRUE
                           ELSE /\ response' = SuccessResponse(record, branches', thought_history')
                                /\ partial' = partial

\* the answer to a name the handler does not know; the arguments are not read
UnknownTool(name) ==
    /\ request' = NoRequest
    /\ response' = UnknownToolResponse(name)
    /\ UNCHANGED <<build, maxHistorySize, thought_history, branches,
                   available_tools, pushed, partial>>

\* one tools/call request.  The sdk build dispatches on the name itself; in
\* the tmcp build the handler is registered under its name and only calls
\* by that name reach it
CallTool(name, input) ==
    /\ Spent < MaxRequests
    /\ UNCHANGED calls
    /\ tool_name' = name
    /\ IF Dispatches(name) THEN ProcessThought(input)
       ELSE build = "sdk" /\ UnknownTool(name)

\* one tools/list request
ListTools ==
    /\ Spent < MaxRequests
    /\ tool_name' = NoName
    /\ request' = NoRequest
    /\ response' = ToolsResponse(ListedTools(build, available_tools))
    /\ UNCHANGED <<build, maxHistorySize, thought_history, branches,
                   available_tools, pushed, partial, calls>>

\* addTool(tool)
AddTool(tool) ==
    /\ Spent < MaxRequests
    /\ available_tools' = SetUnlessPresent(available_tools, tool)
    /\ tool_name' = NoName
    /\ request' = NoRequest
    /\ response' = NoResponse
    /\ UNCHANGED <<build, maxHistorySize, thought_history, branches, pushed,
                   partial, calls>>

\* discoverTools(): it only writes a line to the log
DiscoverTools ==
    /\ Spent < MaxRequests
    /\ tool_name' = NoName
    /\ request' = NoRequest
    /\ response' = NoResponse
    /\ UNCHANGED <<build, maxHistorySize, thought_history, branches,
                   available_tools, pushed, partial, calls>>

\* a variant of clearHistory that also puts the ceiling back to its default
ClearHistoryResetsCeiling ==
    /\ thought_history' = <<>>
    /\ branches' = <<>>
    /\ maxHistorySize' = DefaultMaxHistorySize
    /\ tool_name' = NoName
    /\ request' = NoRequest
    /\ response' = ClearedResponse
    /\ pushed' = <<>>
    /\ partial' = FALSE
    /\ UNCHANGED <<build, available_tools, calls>>

\* clearHistory()
ClearHistory ==
    /\ thought_history' = <<>>
    /\ branches' = <<>>
    /\ tool_name' = NoName
    /\ request' = NoRequest
    /\ response' = ClearedResponse
    /\ pushed' = <<>>
    /\ partial' = FALSE
    /\ UNCHANGED <<build, maxHistorySize, available_tools, calls>>

Next ==
    \/ \E name \in ToolNames : \E input \in ArgumentsFor(name) : CallTool(name, input)
    \/ ListTools
    \/ \E tool \in AddableTools : AddTool(tool)
    \/ DiscoverTools
    \/ ClearHistory

Spec == Init /\ [][Next]_vars

(***************************************************************************)
(* The tool-executing revision (index.ts 372-712).  Its processThought     *)
(* awaits the selected tools before it pushes the record, so several       *)
(* requests can be inside it at once.  It keeps no ceiling and has no      *)
(* clearHistory; maxHistorySize is not read.                               *)
(***************************************************************************)
\* the name its CallTool handler answers to
ExecToolName == "sequentialthinking"

\* new ToolAwareSequentialThinkingServer([SEQUENTIAL_THINKING_TOOL])
ExecCatalog == <<SEQUENTIAL_THINKING_TOOL>>

\* the message of the error its validateThoughtData throws, "" when it returns
ExecValidationError(data) ==
    IF ~IsObject(data)
    THEN "Cannot read properties of null (reading 'thought')"
    ELSE IF ~Truthy(data.thought) \/ TypeOf(data.thought) # "string"
    THEN "Invalid thought: must be a string"
    ELSE IF ~Truthy(data.thought_number) \/ TypeOf(data.thought_number) # "number"
    THEN "Invalid thought_number: must be a number"
    ELSE IF ~Truthy(data.total_thoughts) \/ TypeOf(data.total_thoughts) # "number"
    THEN "Invalid total_thoughts: must be a number"
    ELSE IF TypeOf(data.next_thought_needed) # "boolean"
    THEN "Invalid next_thought_needed: must be a boolean"
    ELSE IF Truthy(data.tools_considered) /\ ~IsArray(data.tools_considered)
    THEN "tools_considered must be an array"
    ELSE IF Truthy(data.selected_tools) /\ ~IsArray(data.selected_tools)
    THEN "selected_tools must be an array"
    ELSE ""

\* the record its validateThoughtData returns when it does not throw
ExecValidateThoughtData(data) ==
    [thought |-> data.thought,
     thought_number |-> data.thought_number,
     total_thoughts |-> data.total_thoughts,
     next_thought_needed |-> data.next_thought_needed,
     is_revision |-> data.is_revision,
     revises_thought |-> data.revises_thought,
     branch_from_thought |-> data.branch_from_thought,
     branch_id |-> data.branch_id,
     needs_more_thoughts |-> data.needs_more_thoughts,
     tools_considered |-> IF Truthy(data.tools_considered) THEN data.tools_considered ELSE Undef,
     selected_tools |-> IF Truthy(data.selected_tools) THEN data.selected_tools ELSE Undef,
     tool_executions |-> Undef,
     tool_outputs |-> Undef]

\* the tools `if (validatedInput.selected_tools?.length)` hands to
\* execute_tools: none when the field is absent or empty
SelectedTools(t) ==
    IF Truthy(t.selected_tools) THEN t.selected_tools[2] ELSE <<>>

\* what the client answers to server.request: content whose first item is a
\* text, a result without content, or an error (a timeout included)
ContentReply(chars) == [kind |-> "content", text |-> chars]

EmptyReply == [kind |-> "empty", text |-> <<>>]

RejectedReply == [kind |-> "rejected", text |-> <<>>]

NoReply == [kind |-> "none", text |-> <<>>]

ClientReplies ==
    {ContentReply(<<"7">>), ContentReply(<<"r">>), EmptyReply, RejectedReply}

\* whether JSON.parse(text) returns; of the JSON grammar only the unsigned
\* integers are modelled, every other text here is no JSON
JSONParses(chars) ==
    /\ chars # <<>>
    /\ DigitPrefix(chars) = Len(chars)
    /\ (Len(chars) = 1 \/ Head(chars) # "0")

JSONParse(chars) == Num(DecimalValue(chars, Len(chars)))

RECURSIVE DecimalChars(_)
DecimalChars(n) ==
    IF n < 10 THEN <<Digits[n + 1]>>
    ELSE Append(DecimalChars(n \div 10), Digits[(n % 10) + 1])

\* JSON.stringify(value) of a number or of a text without characters to escape
JSONStringify(v) ==
    IF Tag(v) = "number" THEN DecimalChars(v[2])
    ELSE <<"\"">> \o v[2] \o <<"\"">>

\* execute_tool: whether it throws, the value it returns, the error it throws
ExecuteToolThrows(reply) == reply.kind # "content"

ExecuteToolResult(reply) ==
    IF JSONParses(reply.text) THEN JSONParse(reply.text) ELSE Str(reply.text)

ExecuteToolError(tool, reply) ==
    <<"Failed to execute tool", tool.name,
      IF reply.kind = "empty" THEN "Tool execution returned no content"
      ELSE "the request failed">>

\* this.available_tools.get(tool_name)
FoundTool(catalog, name) ==
    Tag(name) = "string" /\ HasTool(catalog, name[2])

\* one promise of tools.map(async tool_name => ...): the ToolUsage it will
\* resolve to, "pending" while server.request is awaited; reply records the
\* answer that settled it
StartTool(catalog, name, inputs) ==
    IF FoundTool(catalog, name)
    THEN [tool_name |-> name, inputs |-> inputs, status |-> "pending",
          results |-> Undef, error |-> Undef, reply |-> NoReply]
    ELSE [tool_name |-> name, inputs |-> inputs, status |-> "error",
          results |-> Undef, error |-> <<"Tool", name[2], "not found">>,
          reply |-> NoReply]

\* the promise once server.request has settled with this reply
SettleTool(promise, tool, reply) ==
    IF ExecuteToolThrows(reply)
    THEN [promise EXCEPT !.status = "error",
                         !.error = ExecuteToolError(tool, reply),
                         !.reply = reply]
    ELSE [promise EXCEPT !.status = "success",
                         !.results = ExecuteToolResult(reply),
                         !.reply = reply]

\* the ToolUsage a settled promise resolved to
ToolUsage(promise) ==
    [tool_name |-> promise.tool_name,
     inputs |-> promise.inputs,
     status |-> promise.status,
     results |-> promise.results,
     error |-> promise.error]

\* a variant whose Promise.all keeps the successful entries only
ToolExecutionsSuccessOnly(promises) ==
    LET IsSuccess(p) == p.status = "success"
        kept == SelectSeq(promises, IsSuccess)
    IN  [k \in 1..Len(kept) |-> ToolUsage(kept[k])]

\* what Promise.all resolves to: one ToolUsage per tool, in the order of tools
ToolExecutions(promises) ==
    [k \in 1..Len(promises) |-> ToolUsage(promises[k])]

\* tool_executions.filter(status === 'success').map(JSON.stringify(results))
RECURSIVE ToolOutputs(_)
ToolOutputs(executions) ==
    IF executions = <<>> THEN <<>>
    ELSE IF Head(executions).status = "success"
    THEN <<JSONStringify(Head(executions).results)>> \o ToolOutputs(Tail(executions))
    ELSE ToolOutputs(Tail(executions))

\* the object its processThought serialises on success
ExecSuccessResponse(t, index, history) ==
    [status |-> "ok",
     thought_number |-> t.thought_number,
     total_thoughts |-> t.total_thoughts,
     next_thought_needed |-> t.next_thought_needed,
     branches |-> DOMAIN index,
     thought_history_length |-> Len(history),
     tool_executions |-> t.tool_executions,
     tool_outputs |-> t.tool_outputs]

\* requests received since startup
MaxCalls == 2

ExecThought(number, total, from, id, tools) ==
    [thought |-> Str("t"),
     thought_number |-> Num(number),
     total_thoughts |-> Num(total),
     next_thought_needed |-> Bool(TRUE),
     is_revision |-> Undef,
     revises_thought |-> Undef,
     branch_from_thought |-> from,
     branch_id |-> id,
     needs_more_thoughts |-> Undef,
     tools_considered |-> Undef,
     selected_tools |-> tools]

\* the tool the server knows, and one it does not
Known == Str(ToolName)

Missing == Str("missing")

\* thoughts without tools (field absent, list empty), with known and
\* unknown tools mixed on a branch, with an unknown tool on
\* the branch `constructor`, and arguments the validator refuses
ExecInputs ==
    {ExecThought(1, 3, Undef, Undef, Undef),
     ExecThought(3, 1, Undef, Undef, Arr(<<>>)),
     ExecThought(2, 3, Num(1), Str("A"), Arr(<<Known, Missing, Known>>)),
     ExecThought(2, 3, Num(1), Str("constructor"), Arr(<<Missing>>)),
     ExecThought(1, 3, Undef, Undef, Str("x")),
     ExecThought(0, 3, Undef, Undef, Arr(<<Known>>)),
     NullArguments}

\* the names a client may call: the one the handler answers to, and the one
\* the listing advertises
ExecToolNames == {ExecToolName, ToolName}

ExecArgumentsFor(name) ==
    IF name = ExecToolName THEN ExecInputs ELSE {UnreadArguments}

\* one request inside the handler: what was sent, whether processThought
\* still awaits execute_tools, the validated input, the promises of its
\* tools, the value returned, and the places of history it pushed to
Call(name, input, stage, record, promises, returned, pushed_at) ==
    [name |-> name, input |-> input, stage |-> stage, record |-> record,
     promises |-> promises, response |-> returned, pushed_at |-> pushed_at]

NoRecord == [none |-> TRUE]

ToolInit ==
    /\ build = "exec"
    /\ maxHistorySize = DefaultMaxHistorySize
    /\ thought_history = <<>>
    /\ branches = <<>>
    /\ available_tools = ExecCatalog
    /\ tool_name = NoName
    /\ request = NoRequest
    /\ response = NoResponse
    /\ pushed = <<>>
    /\ partial = FALSE
    /\ calls = <<>>

\* processThought from `this.thought_history.push` to its return, for the
\* request at place i of cs
ExecPushAndRespond(cs, i, record) ==
    /\ thought_history' = Append(thought_history, record)
    /\ pushed' = Append(pushed, record)
    /\ IF BranchPushThrows(branches, record)
       THEN /\ branches' = branches
            /\ partial' = TRUE
            /\ response' = FailureResponse("this.branches[...].push is not a function")
       ELSE /\ branches' = IndexBranch(branches, record)
            /\ partial' = partial
            /\ response' = ExecSuccessResponse(record, branches', thought_history')
    /\ calls' = [cs EXCEPT ![i].stage = "returned",
                           ![i].record = record,
                           ![i].response = response',
                           ![i].pushed_at = Append(@, Len(thought_history'))]

\* a tools/call request arrives and runs up to its first await or its return
ExecCallTool(name, input) ==
    /\ Len(calls) < MaxCalls
    /\ tool_name' = name
    /\ UNCHANGED <<build, maxHistorySize, available_tools>>
    /\ IF name # ExecToolName
       THEN /\ request' = NoRequest
            /\ response' = UnknownToolResponse(name)
            /\ calls' = Append(calls, Call(name, input, "returned", NoRecord,
                                           <<>>, response', <<>>))
            /\ UNCHANGED <<thought_history, branches, pushed, partial>>
       ELSE /\ request' = input
            /\ IF ExecValidationError(input) # ""
               THEN /\ response' = FailureResponse(ExecValidationError(input))
                    /\ calls' = Append(calls, Call(name, input, "returned", NoRecord,
                                                   <<>>, response', <<>>))
                    /\ UNCHANGED <<thought_history, branches, pushed, partial>>
               ELSE LET validatedInput == NormalizeTotal(ExecValidateThoughtData(input))
                        tools == SelectedTools(validatedInput)
                        inputs == [thought |-> validatedInput.thought]
                        promises == [k \in 1..Len(tools) |->
                                        StartTool(available_tools, tools[k], inputs)]
                    IN  IF tools # <<>>
                        THEN /\ calls' = Append(calls, Call(name, input, "awaiting",
                                                  validatedInput, promises, NoResponse, <<>>))
                             /\ UNCHANGED <<thought_history, branches, pushed,
                                            partial, response>>
                        ELSE ExecPushAndRespond(
                                 Append(calls, Call(name, input, "awaiting",
                                                    validatedInput, <<>>, NoResponse, <<>>)),
                                 Len(calls) + 1, validatedInput)

\* the client answers the server.request of tool k of request i
ToolReply(i, k, reply) ==
    /\ calls[i].stage = "awaiting"
    /\ calls[i].promises[k].status = "pending"
    /\ calls' = [calls EXCEPT ![i].promises[k] =
                    SettleTool(@, available_tools[1], reply)]
    /\ UNCHANGED <<build, maxHistorySize, thought_history, branches,
                   available_tools, tool_name, request, response, pushed, partial>>

\* every promise of request i has settled: `await this.execute_tools(...)`
\* returns and processThought runs to its end
ExecResume(i) ==
    /\ calls[i].stage = "awaiting"
    /\ \A k \in 1..Len(calls[i].promises) : calls[i].promises[k].status # "pending"
    /\ LET executions == ToolExecutions(calls[i].promises)
           record == [calls[i].record EXCEPT
                         !.tool_executions = Arr(executions),
                         !.tool_outputs = Arr(ToolOutputs(executions))]
       IN  ExecPushAndRespond(calls, i, record)
    /\ UNCHANGED <<build, maxHistorySize, available_tools, tool_name, request>>

\* its tools/list handler
ExecListTools ==
    /\ Len(calls) < MaxCalls
    /\ tool_name' = NoName
    /\ request' = NoRequest
    /\ response' = ToolsResponse(ExecCatalog)
    /\ UNCHANGED <<build, maxHistorySize, thought_history, branches,
                   available_tools, pushed, partial, calls>>

ToolNext ==
    \/ \E name \in ExecToolNames : \E input \in ExecArgumentsFor(name) :
          ExecCallTool(name, input)
    \/ \E i \in 1..Len(calls) : \E k \in 1..Len(calls[i].promises) :
          \E reply \in ClientReplies : ToolReply(i, k, reply)
    \/ \E i \in 1..Len(calls) : ExecResume(i)
    \/ ExecListTools

ToolSpec == ToolInit /\ [][ToolNext]_vars



(***************************************************************************)
(* Vocabulary of the properties.                                           *)
(***************************************************************************)
\* the data model types max_history_size as a positive integer; whether the
\* constructor guarantees it is a property of its own
WellConfigured == maxHistorySize >= 1

\* the latest call returned a success payload
Succeeded == response.status = "ok"

\* the latest call returned a failure: the catch block's payload, or the
\* schema's refusal
Failed == response.status \in {"failed", "rejected"}

\* the record the latest successful call built and pushed
LastPushed == pushed[Len(pushed)]

\* the last n elements of s
LastN(s, n) == SubSeq(s, Len(s) - n + 1, Len(s))

RECURSIVE SumLengths(_, _)
SumLengths(index, keys) ==
    IF keys = {} THEN 0
    ELSE LET k == CHOOSE x \in keys : TRUE
         IN  Len(index[k]) + SumLengths(index, keys \ {k})

\* the number of record references the server holds
Retained == Len(thought_history) + SumLengths(branches, DOMAIN branches)

AllRecords ==
    {thought_history[i] : i \in 1..Len(thought_history)}
    \cup UNION {{branches[b][i] : i \in 1..Len(branches[b])} : b \in DOMAIN branches}

\* the current_step of every record pushed so far, in order
StepsOf(records) == [i \in 1..Len(records) |-> records[i].current_step]

(***************************************************************************)
(* C1.  For every accepted input the total_thoughts stored (history and    *)
(* branch sequence) and returned is max(total_thoughts, thought_number) of *)
(* the input, so every record held has total_thoughts >= thought_number.   *)
(***************************************************************************)
C1_TotalIsMax ==
    /\ \A t \in AllRecords : t.total_thoughts[2] >= t.thought_number[2]
    /\ Succeeded =>
         LET expected == Num(Max(request.total_thoughts[2], request.thought_number[2]))
         IN  /\ response.total_thoughts = expected
             /\ LastPushed.total_thoughts = expected
             /\ thought_history # <<>> =>
                  thought_history[Len(thought_history)].total_thoughts = expected
             /\ IndexesBranch(request) =>
                  LET seq == branches[request.branch_id[2]]
                  IN  seq[Len(seq)].total_thoughts = expected

\* a branch thought numbered above its total was stored, and so was one
\* numbered below it
C1_Witness ==
    /\ Succeeded
    /\ request.thought_number[2] > request.total_thoughts[2]
    /\ IndexesBranch(request)
    /\ Len(thought_history) >= 2
    /\ \E t \in AllRecords : t.total_thoughts[2] > t.thought_number[2]

(***************************************************************************)
(* C2.  With a ceiling k >= 1, after calls that accepted N records since   *)
(* startup or the last clear (none of them failing half-way), history is   *)
(* exactly the last min(N, k) accepted records in order, so its length     *)
(* never exceeds k.                                                        *)
(***************************************************************************)
C2_HistoryIsLastK ==
    (WellConfigured /\ ~partial) =>
        /\ Len(thought_history) = Min(Len(pushed), maxHistorySize)
        /\ thought_history = LastN(pushed, Min(Len(pushed), maxHistorySize))
        /\ Len(thought_history) <= maxHistorySize

\* k = 2 and thoughts 1, 2, 3: history holds thoughts 2 and 3
C2_Witness ==
    /\ maxHistorySize = 2
    /\ ~partial
    /\ [i \in 1..Len(pushed) |-> pushed[i].thought_number[2]] = <<1, 2, 3>>
    /\ [i \in 1..Len(thought_history) |-> thought_history[i].thought_number[2]] = <<2, 3>>

(***************************************************************************)
(* C3.  Whenever processThought returns a failure payload, history and     *)
(* branches are as they were before the call.                              *)
(***************************************************************************)
C3_FailureLeavesLedger ==
    [][response'.status = "failed" =>
          (thought_history' = thought_history /\ branches' = branches)]_vars

(***************************************************************************)
(* C4.  An input lacking thought, thought_number, total_thoughts or        *)
(* next_thought_needed gets a failure payload and nothing is stored,       *)
(* whatever its other fields are.                                          *)
(***************************************************************************)
LacksRequired(input) ==
    ~IsObject(input) \/ \E f \in RequiredFields : Tag(input[f]) = "undefined"

C4_MissingFieldFails ==
    [][(tool_name' = ToolName /\ LacksRequired(request')) =>
          /\ response'.status \in {"failed", "rejected"}
          /\ thought_history' = thought_history
          /\ branches' = branches]_vars

\* a request without its thought, carrying branch fields and a step, failed
\* against a ledger that holds records
C4_Witness ==
    /\ Failed
    /\ IsObject(request)
    /\ Tag(request.thought) = "undefined"
    /\ Truthy(request.branch_id)
    /\ Truthy(request.current_step)
    /\ Len(thought_history) >= 1
    /\ DOMAIN branches # {}

(***************************************************************************)
(* C5.  The records the server retains, history and branch sequences       *)
(* together, stay within a bound fixed by max_history_size.  Each record   *)
(* enters history once and at most one branch sequence, so a ledger that   *)
(* bounded both would hold at most twice the ceiling.                      *)
(***************************************************************************)
C5_RetainedIsBounded ==
    WellConfigured => Retained <= 2 * maxHistorySize


(***************************************************************************)
(* C6.  A successfully processed record carrying both branch_from_thought  *)
(* and branch_id = B is the last element of branches[B], the same record   *)
(* is in history, and B is listed by this response and by every later one  *)
(* until clear.                                                            *)
(***************************************************************************)
CarriesBranch(input) ==
    Tag(input.branch_from_thought) # "undefined" /\ Tag(input.branch_id) # "undefined"

C6_BranchRecordIndexed ==
    Succeeded =>
        /\ DOMAIN branches \subseteq response.branches
        /\ CarriesBranch(request) =>
             LET B == request.branch_id[2]
             IN  /\ B \in DOMAIN branches
                 /\ branches[B][Len(branches[B])] = LastPushed
                 /\ B \in response.branches
                 /\ WellConfigured =>
                      thought_history[Len(thought_history)] = LastPushed

(***************************************************************************)
(* C7.  For an accepted input with current_step = S, the stored and the    *)
(* echoed previous_steps are the input's previous_steps (a sequence, or    *)
(* absent) with S appended last; without current_step they are the input's *)
(* previous_steps as given, absent staying absent.                         *)
(***************************************************************************)
C7_StepAppended ==
    (Succeeded /\ Tag(request.previous_steps) \in {"undefined", "array"}) =>
        LET given == IF IsArray(request.previous_steps)
                     THEN request.previous_steps[2] ELSE <<>>
            expected == IF Truthy(request.current_step)
                        THEN Arr(Append(given, request.current_step))
                        ELSE request.previous_steps
        IN  /\ LastPushed.previous_steps = expected
            /\ response.previous_steps = expected
            /\ thought_history # <<>> =>
                 thought_history[Len(thought_history)].previous_steps = expected

\* [S1] with current_step S2 was stored as [S1, S2]; an earlier record
\* without a step kept its previous_steps absent
C7_Witness ==
    /\ Succeeded
    /\ request.current_step = S2
    /\ request.previous_steps = Arr(<<S1>>)
    /\ Len(thought_history) >= 2
    /\ thought_history[Len(thought_history)].previous_steps = Arr(<<S1, S2>>)
    /\ thought_history[1].previous_steps = Undef

(***************************************************************************)
(* C8.  After a run of successfully processed records that each carry a    *)
(* current_step, the previous_steps of the latest stored record holds the  *)
(* current_step of every processed record, in order, whether or not the    *)
(* caller resent the earlier ones.                                         *)
(***************************************************************************)
EveryRecordHasStep == \A i \in 1..Len(pushed) : Truthy(pushed[i].current_step)

\* whether a is found in b, in order (not necessarily contiguously)
RECURSIVE ContainsInOrder(_, _)
ContainsInOrder(b, a) ==
    IF a = <<>> THEN TRUE
    ELSE IF b = <<>> THEN FALSE
    ELSE IF Head(a) = Head(b) THEN ContainsInOrder(Tail(b), Tail(a))
    ELSE ContainsInOrder(Tail(b), a)

\* the stored steps hold every processed step in order and end with the
\* latest record's own
HoldsFullStepHistory(stored) ==
    /\ IsArray(stored)
    /\ ContainsInOrder(stored[2], StepsOf(pushed))
    /\ stored[2][Len(stored[2])] = LastPushed.current_step

C8_FullStepHistory ==
    (Succeeded /\ ~partial /\ EveryRecordHasStep) =>
        HoldsFullStepHistory(LastPushed.previous_steps)

\* the request's previous_steps holds, in order, the current_step of every
\* record processed before it
ResentEarlierSteps ==
    LET earlier == SubSeq(StepsOf(pushed), 1, Len(pushed) - 1)
        given == IF IsArray(request.previous_steps)
                 THEN request.previous_steps[2] ELSE <<>>
    IN  ContainsInOrder(given, earlier)

\* C8 as amended: the same, provided the caller resent the earlier steps in
\* the request's previous_steps; the server carries no step over by itself
C8_StepHistoryWhenResent ==
    (Succeeded /\ ~partial /\ EveryRecordHasStep /\ ResentEarlierSteps) =>
        /\ HoldsFullStepHistory(LastPushed.previous_steps)
        /\ HoldsFullStepHistory(response.previous_steps)

\* S1, then S2 submitted with previous_steps [S1]
C8_Witness ==
    /\ Succeeded
    /\ ~partial
    /\ EveryRecordHasStep
    /\ ResentEarlierSteps
    /\ StepsOf(pushed) = <<S1, S2>>
    /\ LastPushed.previous_steps = Arr(<<S1, S2>>)

(***************************************************************************)
(* C9.  Every success response reports the ledger as the request leaves    *)
(* it: thought_number and next_thought_needed as submitted, total_thoughts *)
(* normalised, branches the keys of the branch index with this request's   *)
(* own branch among them, and thought_history_length the length of history *)
(* after eviction, min(previous length + 1, max_history_size) for a        *)
(* ceiling >= 1.                                                           *)
(***************************************************************************)
C9_ResponseReportsLedger ==
    [][response'.status = "ok" =>
          /\ response'.thought_number = request'.thought_number
          /\ response'.next_thought_needed = request'.next_thought_needed
          /\ response'.total_thoughts =
               Num(Max(request'.total_thoughts[2], request'.thought_number[2]))
          /\ response'.branches = DOMAIN branches'
          /\ IndexesBranch(request') => request'.branch_id[2] \in response'.branches
          /\ response'.thought_history_length = Len(thought_history')
          /\ WellConfigured =>
               response'.thought_history_length =
                   Min(Len(thought_history) + 1, maxHistorySize)]_vars

\* a branch request answered when history was already at its ceiling
C9_Witness ==
    /\ Succeeded
    /\ IndexesBranch(request)
    /\ Len(pushed) > maxHistorySize
    /\ WellConfigured
    /\ response.thought_history_length = maxHistorySize
    /\ Cardinality(response.branches) >= 2

(***************************************************************************)
(* C10.  An input holding only the four required fields is accepted: from  *)
(* an empty ledger {thought, thought_number: 1, total_thoughts: 3,         *)
(* next_thought_needed: true} yields thought_number 1, total_thoughts 3,   *)
(* next_thought_needed true, branches [] and thought_history_length 1.     *)
(***************************************************************************)
FourFieldInput ==
    Without(Thought(1, 3, TRUE, Undef, Undef, Undef, Undef), "available_mcp_tools")

C10_FourFieldsAccepted ==
    (tool_name = ToolName /\ request = FourFieldInput) =>
        /\ Succeeded
        /\ response.thought_number = Num(1)
        /\ response.total_thoughts = Num(3)
        /\ response.next_thought_needed = Bool(TRUE)
        /\ Len(pushed) = 1 =>
             (response.branches = {} /\ response.thought_history_length = 1)

(***************************************************************************)
(* C11.  An input whose thought_number or total_thoughts is not a number   *)
(* >= 1 (absent, no number, zero, negative) gets a failure payload, so     *)
(* every record in history and branches has thought_number >= 1 and        *)
(* total_thoughts >= 1.                                                    *)
(***************************************************************************)
IsNumberAtLeastOne(v) == Tag(v) = "number" /\ v[2] >= 1

C11_NumbersAtLeastOne ==
    /\ \A t \in AllRecords :
         IsNumberAtLeastOne(t.thought_number) /\ IsNumberAtLeastOne(t.total_thoughts)
    /\ (/\ tool_name = ToolName
        /\ IsObject(request)
        /\ \/ ~IsNumberAtLeastOne(request.thought_number)
           \/ ~IsNumberAtLeastOne(request.total_thoughts)) => Failed

(***************************************************************************)
(* C12.  An input whose thought is absent, not text or the empty string    *)
(* gets a failure payload and the length of history stays as it was.       *)
(***************************************************************************)
IsNonEmptyText(v) == Tag(v) = "string" /\ v[2] # ""

C12_EmptyThoughtFails ==
    [][(/\ tool_name' = ToolName
        /\ IsObject(request')
        /\ ~IsNonEmptyText(request'.thought)) =>
          /\ response'.status \in {"failed", "rejected"}
          /\ Len(thought_history') = Len(thought_history)]_vars

(***************************************************************************)
(* C13.  Every newly stored record's total_thoughts is at least the        *)
(* largest thought_number among the records accepted earlier in the same   *)
(* sequence (the main line, or the same branch_id).                        *)
(***************************************************************************)
SequenceOf(t) ==
    IF IndexesBranch(t) THEN <<"branch", t.branch_id[2]>> ELSE <<"main">>

EarlierInSequence ==
    {i \in 1..(Len(pushed) - 1) : SequenceOf(pushed[i]) = SequenceOf(LastPushed)}

C13_TotalCoversSequence ==
    (Succeeded /\ ~partial) =>
        \A i \in EarlierInSequence :
            LastPushed.total_thoughts[2] >= pushed[i].thought_number[2]

\* C13 as amended: the stored total is the larger of the record's own
\* total_thoughts and its own thought_number; a total that covers the
\* record's own number is stored as sent, whatever earlier records hold
C13_TotalCoversOwnNumber ==
    [][response'.status = "ok" =>
          LET stored == pushed'[Len(pushed')]
              sent == request'
          IN  /\ stored.total_thoughts[2] >= stored.thought_number[2]
              /\ stored.total_thoughts[2] =
                   Max(sent.total_thoughts[2], sent.thought_number[2])
              /\ sent.total_thoughts[2] >= sent.thought_number[2] =>
                   stored.total_thoughts = sent.total_thoughts]_vars

\* thought 3 of the main line, then thought 2 of 2 of the main line
C13_Witness ==
    /\ Succeeded
    /\ ~partial
    /\ \E i \in EarlierInSequence :
         pushed[i].thought_number[2] > LastPushed.total_thoughts[2]
    /\ LastPushed.total_thoughts = request.total_thoughts

(***************************************************************************)
(* C14.  clear() leaves history empty and the branch index without keys,   *)
(* whatever they held, and changes neither max_history_size nor the tool   *)
(* catalog; the first successful process_thought after it reports          *)
(* thought_history_length 1 and at most its own branch id.                 *)
(***************************************************************************)
OwnBranch(input) ==
    IF CarriesBranch(input) THEN {input.branch_id[2]} ELSE {}

C14_ClearEmptiesLedger ==
    [][/\ response'.status = "cleared" =>
            /\ thought_history' = <<>>
            /\ DOMAIN branches' = {}
            /\ maxHistorySize' = maxHistorySize
            /\ available_tools' = available_tools
       /\ (response.status = "cleared" /\ response'.status = "ok") =>
            /\ response'.thought_history_length = 1
            /\ response'.branches \subseteq OwnBranch(request')]_vars

(***************************************************************************)
(* C15.  The max_history_size in effect is a positive integer, whatever    *)
(* MAX_HISTORY_SIZE holds.                                                 *)
(***************************************************************************)
C15_CeilingIsPositive == maxHistorySize \in Nat \ {0}

(***************************************************************************)
(* C16.  Whenever processThought runs it returns a structured payload: a   *)
(* success payload, or a failure payload with an error message, status     *)
(* 'failed' and isError true, for every input (null among them) and every  *)
(* ledger state; no error leaves it as an exception.                       *)
(***************************************************************************)
C16_AlwaysStructuredPayload ==
    [][(tool_name' = ToolName /\ response'.status # "rejected") =>
          /\ response'.status \in {"ok", "failed"}
          /\ response'.status = "failed" =>
               (response'.isError /\ response'.error # "")
          /\ response'.status = "ok" =>
               response'.thought_history_length \in Nat]_vars

\* null arguments were answered with a failure payload by a server that
\* holds records
C16_Witness ==
    /\ tool_name = ToolName
    /\ request = NullArguments
    /\ response.status = "failed"
    /\ response.isError
    /\ Len(thought_history) >= 1

(***************************************************************************)
(* C17.  A tools/call naming anything but 'sequentialthinking_tools' is    *)
(* answered with a failure payload (isError true, the text naming the      *)
(* unknown tool) and leaves history, branches and the catalog unchanged.   *)
(***************************************************************************)
C17_UnknownToolFails ==
    [][(tool_name' # NoName /\ tool_name' # "sequentialthinking_tools") =>
          /\ response'.status = "unknown_tool"
          /\ response'.isError
          /\ response'.text = <<"Unknown tool: ", tool_name'>>
          /\ thought_history' = thought_history
          /\ branches' = branches
          /\ available_tools' = available_tools]_vars

\* an unknown name was answered by a server that holds records and an
\* indexed branch
C17_Witness ==
    /\ tool_name = "sequentialthinking"
    /\ response.status = "unknown_tool"
    /\ Len(thought_history) >= 1
    /\ DOMAIN branches # {}

(***************************************************************************)
(* C18.  The catalog listing changes no state, lists the server's own tool *)
(* and every tool configured at startup, in the order of the catalog, and  *)
(* answers the same when asked again; processThought and clear leave the   *)
(* catalog alone.                                                          *)
(***************************************************************************)
C18_ListingIsReadOnly ==
    [][/\ response'.status = "tools" =>
            /\ thought_history' = thought_history
            /\ branches' = branches
            /\ available_tools' = available_tools
            /\ maxHistorySize' = maxHistorySize
            /\ HasTool(response'.tools, "sequentialthinking_tools")
            /\ \A i \in 1..Len(StartupTools) : HasTool(response'.tools, StartupTools[i].name)
            /\ build = "sdk" => response'.tools = available_tools
            /\ response.status = "tools" => response'.tools = response.tools
       /\ (tool_name' # NoName \/ response'.status = "cleared") =>
            available_tools' = available_tools]_vars

\* the listing of a catalog that holds an added tool, by a server that holds
\* records
C18_Witness ==
    /\ response.status = "tools"
    /\ Len(response.tools) = 2
    /\ response.tools[1].name = "sequentialthinking_tools"
    /\ Len(thought_history) >= 1

(***************************************************************************)
(* C19.  Acceptance does not depend on the ledger: the same input gets the *)
(* same verdict whatever history and branches hold, and a record whose     *)
(* revises_thought or branch_from_thought names a thought that was never   *)
(* submitted is accepted and stored.                                       *)
(***************************************************************************)
\* the verdict on the input of a server of this build whose ledger is empty
StatusOnEmptyLedger(b, input) ==
    IF b = "tmcp" /\ ~SequentialThinkingSchema(input) THEN "rejected"
    ELSE IF b = "sdk" /\ ValidationError(input) # "" THEN "failed"
    ELSE LET record == AggregateStep(NormalizeTotal(input))
         IN  IF BranchPushThrows(<<>>, record) \/ FormatThoughtThrows(record)
             THEN "failed" ELSE "ok"

\* the thought numbers the server has been sent and has pushed
NumbersSeen == {pushed[i].thought_number[2] : i \in 1..Len(pushed)}

\* the input names, as revised or branched from, a thought never pushed
NamesUnseenThought(input) ==
    \/ Tag(input.revises_thought) = "number"
         /\ input.revises_thought[2] \notin NumbersSeen
    \/ Tag(input.branch_from_thought) = "number"
         /\ input.branch_from_thought[2] \notin NumbersSeen

C19_VerdictIgnoresLedger ==
    [][tool_name' = "sequentialthinking_tools" =>
          /\ response'.status = StatusOnEmptyLedger(build, request')
          /\ (/\ IsObject(request')
              /\ NamesUnseenThought(request')
              /\ response'.status = "ok") =>
                LET stored == pushed'[Len(pushed')]
                IN  /\ pushed' = Append(pushed, stored)
                    /\ stored.revises_thought = request'.revises_thought
                    /\ stored.branch_from_thought = request'.branch_from_thought
                    /\ WellConfigured =>
                         thought_history'[Len(thought_history')] = stored]_vars

\* the revision of thought 2 was accepted by a server that holds records,
\* none of them thought 2
C19_Witness ==
    /\ Succeeded
    /\ request.revises_thought = Num(2)
    /\ Len(thought_history) >= 2
    /\ \A i \in 1..(Len(pushed) - 1) : pushed[i].thought_number[2] # 2
    /\ LastPushed.revises_thought = Num(2)

(***************************************************************************)
(* C20.  An input whose previous_steps or remaining_steps is present and   *)
(* not a sequence fails and stores nothing, whatever the value is.         *)
(***************************************************************************)
PresentNonSequence(v) == Tag(v) \notin {"undefined", "array"}

C20_NonSequenceFails ==
    [][(/\ tool_name' = "sequentialthinking_tools"
        /\ IsObject(request')
        /\ \/ PresentNonSequence(request'.previous_steps)
           \/ PresentNonSequence(request'.remaining_steps)) =>
          /\ response'.status \in {"failed", "rejected"}
          /\ thought_history' = thought_history
          /\ branches' = branches]_vars

(***************************************************************************)
(* C21.  Eviction never removes or alters anything in the branch index:    *)
(* across a request that evicts from history every branch keeps its key    *)
(* and the records it held, in order, so a branch sequence may hold        *)
(* records that history no longer holds.                                   *)
(***************************************************************************)
IsPrefix(a, b) == Len(a) <= Len(b) /\ SubSeq(b, 1, Len(a)) = a

\* the request pushed a record and history did not grow by it: it evicted
Evicts ==
    /\ tool_name' = ToolName
    /\ pushed' # pushed
    /\ Len(thought_history') <= Len(thought_history)

HistoryRecords == {thought_history[i] : i \in 1..Len(thought_history)}

C21_EvictionKeepsBranches ==
    [][Evicts =>
          \A b \in DOMAIN branches :
              /\ b \in DOMAIN branches'
              /\ IsPrefix(branches[b], branches'[b])
              /\ Len(branches'[b]) <= Len(branches[b]) + 1]_vars

\* with a ceiling of 2 and two branches, one branch holds a record that
\* history has evicted
C21_Witness ==
    /\ maxHistorySize = 2
    /\ Len(pushed) = 3
    /\ Len(thought_history) = 2
    /\ Cardinality(DOMAIN branches) = 2
    /\ \E b \in DOMAIN branches : branches[b][1] \notin HistoryRecords

(***************************************************************************)
(* C22.  A record is added to the branch index exactly when it carries     *)
(* both branch_from_thought and branch_id: a successfully processed record *)
(* lacking either leaves branches unchanged, one carrying both (whatever   *)
(* the permitted values) is the new last element of branches[branch_id],   *)
(* and either way the record is appended to history.                       *)
(***************************************************************************)
C22_IndexedExactlyWhenBoth ==
    [][response'.status = "ok" =>
          LET stored == pushed'[Len(pushed')]
          IN  /\ pushed' = Append(pushed, stored)
              /\ ~CarriesBranch(request') => branches' = branches
              /\ CarriesBranch(request') =>
                   LET B == request'.branch_id[2]
                   IN  /\ B \in DOMAIN branches'
                       /\ branches'[B] =
                            Append(IF B \in DOMAIN branches THEN branches[B] ELSE <<>>,
                                   stored)
                       /\ \A b \in DOMAIN branches' \ {B} :
                              b \in DOMAIN branches /\ branches'[b] = branches[b]]_vars

(***************************************************************************)
(* C23.  History changes only at its ends: a request leaves a suffix of    *)
(* (the old history followed by the new record), records held in history   *)
(* or branches are never reordered or modified by later requests, and      *)
(* nothing but a request and clear changes them at all.                    *)
(***************************************************************************)
IsSuffix(a, b) == Len(a) <= Len(b) /\ SubSeq(b, Len(b) - Len(a) + 1, Len(b)) = a

C23_HistoryIsAppendOnly ==
    [][/\ tool_name' = "sequentialthinking_tools" =>
            /\ \/ /\ pushed' = pushed
                  /\ thought_history' = thought_history
                  /\ branches' = branches
               \/ /\ pushed' # pushed
                  /\ IsSuffix(thought_history',
                              Append(thought_history, pushed'[Len(pushed')]))
            /\ \A b \in DOMAIN branches :
                   b \in DOMAIN branches' /\ IsPrefix(branches[b], branches'[b])
       /\ (tool_name' # "sequentialthinking_tools" /\ response'.status # "cleared") =>
            (thought_history' = thought_history /\ branches' = branches)]_vars

\* with a ceiling of 2 the third record pushed the first one out
C23_Witness ==
    /\ maxHistorySize = 2
    /\ ~partial
    /\ Len(pushed) = 3
    /\ thought_history = <<pushed[2], pushed[3]>>
    /\ pushed[1] # pushed[2]

(***************************************************************************)
(* C24.  The validator checks thought, thought_number, total_thoughts and  *)
(* next_thought_needed in this order and nothing before them: an input     *)
(* invalid in several of them fails with the message of the earliest, and  *)
(* each of the four messages names its field.                              *)
(***************************************************************************)
\* what the validator holds against each required field
FailsCheck(input, field) ==
    IF field = "next_thought_needed" THEN TypeOf(input[field]) # "boolean"
    ELSE IF field = "thought"
    THEN ~Truthy(input[field]) \/ TypeOf(input[field]) # "string"
    ELSE ~Truthy(input[field]) \/ TypeOf(input[field]) # "number"

CheckOrder == <<"thought", "thought_number", "total_thoughts", "next_thought_needed">>

MessageNaming(field) ==
    CASE field = "thought" -> "Invalid thought: must be a string"
      [] field = "thought_number" -> "Invalid thought_number: must be a number"
      [] field = "total_thoughts" -> "Invalid total_thoughts: must be a number"
      [] field = "next_thought_needed" -> "Invalid next_thought_needed: must be a boolean"

C24_RequiredChecksInOrder ==
    (build = "sdk" /\ tool_name = ToolName /\ IsObject(request)) =>
        \A i \in 1..Len(CheckOrder) :
            (/\ FailsCheck(request, CheckOrder[i])
             /\ \A j \in 1..(i - 1) : ~FailsCheck(request, CheckOrder[j])) =>
                /\ response.status = "failed"
                /\ response.error = MessageNaming(CheckOrder[i])

(***************************************************************************)
(* C25.  The pipeline of a request is one atomic step: no state that a     *)
(* request, clear or the listing can observe holds a record that was       *)
(* pushed to history while its eviction or its branch index update is      *)
(* still not applied.                                                      *)
(***************************************************************************)
C25_NoHalfAppliedRecord ==
    /\ WellConfigured => Len(thought_history) <= maxHistorySize
    /\ \A i \in 1..Len(thought_history) :
         LET t == thought_history[i]
         IN  IndexesBranch(t) =>
                /\ t.branch_id[2] \in DOMAIN branches
                /\ \E j \in 1..Len(branches[t.branch_id[2]]) :
                       branches[t.branch_id[2]][j] = t

(***************************************************************************)
(* C26.  max_history_size never changes after startup, whatever operation  *)
(* runs and however it ends.                                               *)
(***************************************************************************)
C26_CeilingIsImmutable ==
    [][maxHistorySize' = maxHistorySize]_vars

\* the ceiling is 2 after an added tool, a stored record and a request that
\* failed
C26_Witness ==
    /\ maxHistorySize = 2
    /\ Len(available_tools) = 2
    /\ Len(thought_history) = 2
    /\ response.status = "failed"

(***************************************************************************)
(* C27.  The tool-executing revision never starts a second request before  *)
(* the first has finished its pipeline: a request is received only when    *)
(* every earlier one has returned, records are pushed to history in the    *)
(* order their requests were received, and the thought_history_length of   *)
(* every success counts the accepted requests received up to and           *)
(* including its own.                                                      *)
(***************************************************************************)
\* the request passed the dispatch and the validator
Accepted(call) ==
    call.name = ExecToolName /\ ExecValidationError(call.input) = ""

AcceptedUpTo(i) == {j \in 1..i : Accepted(calls[j])}

C27_RequestsAreSerial ==
    /\ \A i \in 1..Len(calls) - 1 : calls[i].stage = "returned"
    /\ \A i, j \in 1..Len(calls) :
          (i < j /\ calls[i].pushed_at # <<>> /\ calls[j].pushed_at # <<>>)
              => calls[i].pushed_at[1] < calls[j].pushed_at[1]
    /\ \A i \in 1..Len(calls) :
          calls[i].response.status = "ok"
              => calls[i].response.thought_history_length
                     = Cardinality(AcceptedUpTo(i))

(***************************************************************************)
(* C28.  Eviction never discards the record the same request appended:     *)
(* after every successful request, whatever the ceiling the server was     *)
(* started with, the last element of history is the record just processed  *)
(* and the reported thought_history_length is at least 1.                  *)
(***************************************************************************)
C28_EvictionKeepsNewRecord ==
    Succeeded =>
        /\ thought_history # <<>>
        /\ thought_history[Len(thought_history)] = LastPushed
        /\ response.thought_history_length >= 1

(***************************************************************************)
(* C29.  The catalog holds each name at most once, under the descriptor    *)
(* registered first: addTool with a name it holds changes nothing, the     *)
(* server's own descriptor is always there and never replaced, not by an   *)
(* added tool nor by a startup tool of its name, and no entry is removed.  *)
(***************************************************************************)
UniqueNames(catalog) ==
    \A i, j \in 1..Len(catalog) : catalog[i].name = catalog[j].name => i = j

\* the startup options the constructor is tried on
StartupOptions ==
    {<<>>,
     <<Tool(ToolName, "impostor")>>,
     <<Tool("mcp-omnisearch", "search"), Tool("mcp-omnisearch", "another search")>>,
     <<Tool("mcp-omnisearch", "search"), Tool(ToolName, "impostor")>>}

\* the first descriptor of that name among the tools given
FirstNamed(tools, name) ==
    tools[CHOOSE i \in 1..Len(tools) :
            tools[i].name = name /\ \A j \in 1..(i - 1) : tools[j].name # name]

ConstructorKeepsFirst ==
    \A options \in StartupOptions :
        LET catalog == ConstructCatalog(options)
        IN  /\ UniqueNames(catalog)
            /\ catalog[1] = SEQUENTIAL_THINKING_TOOL
            /\ \A i \in 1..Len(options) :
                   /\ HasTool(catalog, options[i].name)
                   /\ options[i].name # ToolName =>
                        \E k \in 1..Len(catalog) :
                            catalog[k] = FirstNamed(options, options[i].name)

C29_CatalogKeepsFirst ==
    [][/\ ConstructorKeepsFirst
       /\ UniqueNames(available_tools')
       /\ available_tools'[1] = SEQUENTIAL_THINKING_TOOL
       /\ IsPrefix(available_tools, available_tools')
       /\ (available_tools' # available_tools) =>
            /\ response'.status = "none"
            /\ Len(available_tools') = Len(available_tools) + 1
            /\ ~HasTool(available_tools, available_tools'[Len(available_tools')].name)]_vars

\* a tool was added, and adding under a name the catalog holds left the
\* catalog as it was
C29_Witness ==
    /\ Len(available_tools) = 2
    /\ available_tools[2] = Tool("mcp-omnisearch", "search")
    /\ response.status = "none"
    /\ Len(thought_history) >= 1

(***************************************************************************)
(* C30.  In the tool-executing revision tool failures never abort the      *)
(* request.  For every accepted input with a non-empty selected_tools      *)
(* list: nothing is pushed while its tools run; once it has returned, its  *)
(* record is in history exactly once, with one tool_executions entry per   *)
(* selected tool in the same order, each 'success' or 'error' (an unknown  *)
(* name, a failed call and a call without content give 'error', a call     *)
(* that returned a text gives 'success'), and tool_outputs is the          *)
(* serialised results of the 'success' entries in order; the response is a *)
(* success carrying the same two fields, unless the branch index update    *)
(* threw after the push.  No place of history belongs to two requests.     *)
(***************************************************************************)
RunsTools(call) ==
    Accepted(call) /\ SelectedTools(ExecValidateThoughtData(call.input)) # <<>>

\* the place in `executions` of its n-th successful entry
RECURSIVE NthSuccess(_, _, _)
NthSuccess(executions, n, from) ==
    IF executions[from].status = "success"
    THEN IF n = 1 THEN from ELSE NthSuccess(executions, n - 1, from + 1)
    ELSE NthSuccess(executions, n, from + 1)

Successes(executions) ==
    {k \in 1..Len(executions) : executions[k].status = "success"}

ExecutionsAsSelected(call, record) ==
    LET tools == call.input.selected_tools[2]
        executions == record.tool_executions[2]
    IN  /\ Len(executions) = Len(tools)
        /\ \A k \in 1..Len(tools) :
              /\ executions[k].tool_name = tools[k]
              /\ executions[k].status \in {"success", "error"}
              /\ ~HasTool(available_tools, tools[k][2])
                    => executions[k].status = "error"
              /\ call.promises[k].reply.kind \in {"empty", "rejected"}
                    => executions[k].status = "error"
              /\ call.promises[k].reply.kind = "content"
                    => executions[k].status = "success"

OutputsAreSuccesses(record) ==
    LET executions == record.tool_executions[2]
        outputs == record.tool_outputs[2]
    IN  /\ Len(outputs) = Cardinality(Successes(executions))
        /\ \A n \in 1..Len(outputs) :
              outputs[n] = JSONStringify(executions[NthSuccess(executions, n, 1)].results)

C30_ToolFailuresNeverAbort ==
    /\ \A i \in 1..Len(calls) :
          RunsTools(calls[i]) =>
              IF calls[i].stage = "awaiting" THEN calls[i].pushed_at = <<>>
              ELSE /\ Len(calls[i].pushed_at) = 1
                   /\ LET record == thought_history[calls[i].pushed_at[1]]
                      IN  /\ record = calls[i].record
                          /\ IsArray(record.tool_executions)
                          /\ IsArray(record.tool_outputs)
                          /\ ExecutionsAsSelected(calls[i], record)
                          /\ OutputsAreSuccesses(record)
                          /\ IF BranchPushThrows(<<>>, record)
                             THEN calls[i].response.status = "failed"
                             ELSE /\ calls[i].response.status = "ok"
                                  /\ calls[i].response.tool_executions = record.tool_executions
                                  /\ calls[i].response.tool_outputs = record.tool_outputs
    /\ \A i, j \in 1..Len(calls) :
          (i # j /\ calls[i].pushed_at # <<>> /\ calls[j].pushed_at # <<>>)
              => calls[i].pushed_at[1] # calls[j].pushed_at[1]
    /\ \A i \in 1..Len(calls) :
          \A n \in 1..Len(calls[i].pushed_at) :
              calls[i].pushed_at[n] \in 1..Len(thought_history)

\* a request that selected a known tool, an unknown one and the known one
\* again has returned a success: the first call gave a text that is no JSON,
\* the last one failed, and tool_outputs holds the one text, quoted
C30_Witness ==
    \E i \in 1..Len(calls) :
        /\ RunsTools(calls[i])
        /\ calls[i].stage = "returned"
        /\ calls[i].response.status = "ok"
        /\ Len(calls[i].response.tool_executions[2]) = 3
        /\ calls[i].response.tool_executions[2][1].status = "success"
        /\ calls[i].response.tool_executions[2][2].status = "error"
        /\ calls[i].response.tool_executions[2][3].status = "error"
        /\ calls[i].promises[3].reply = RejectedReply
        /\ calls[i].response.tool_outputs = Arr(<< <<"\"", "r", "\"">> >>)
        /\ Len(thought_history) = 2

====
